---- MODULE Spec2Model ----
(***************************************************************************)
(* Spirit Hatch: the pet simulation engine of src/main.py (HTTP shell) and *)
(* the terminal game of src/spirit_hatch.py.  The two programs are run     *)
(* apart: a behaviour is a run of one of them.                             *)
(*                                                                         *)
(* Numbers.  Time is counted in whole seconds.  The three stats are kept   *)
(* in fixed point, Scale units per stat point, so that the three rates of  *)
(* update_stats (0.3, 0.1 and 0.05 points per second) are whole numbers of *)
(* units per second and every value the code computes on whole seconds is  *)
(* represented exactly.  The several time.time() reads of one request are  *)
(* taken as one instant (they differ by less than the resolution).         *)
(***************************************************************************)
EXTENDS Integers, Sequences, FiniteSets, TLC

\* ---------------------------------------------------------------- numbers

\* Units per stat point: 0.05 point (the smallest rate, per second) is 1 unit.
Scale == 20

\* n stat points in units.
Pts(n) == n * Scale

\* decay_rate = 0.3 points per second, in units per second.
DecayRate == 6

\* health loss 0.1 points per second, in units per second.
HealthLoss == 2

\* health recovery 0.05 points per second, in units per second.
HealthGain == 1

\* Seconds per in-game day.
DaySeconds == 30

\* Seconds between two random-event checks.
EventSeconds == 60

\* Initial value of the three stats, in points.
InitialStat == 50

\* Threshold of evolve on the three stats, in points.
EvolveMin == 50

\* Stat boost of a successful evolve, in points.
EvolveBoost == 20

\* ----------------------------------------------------------------- bounds

\* The longest wait between two requests, in seconds; the clock stops
\* advancing at MaxTime.
MaxTime == 30

\* Actions that count an interaction are refused once interactions = MaxInteractions.
MaxInteractions == 1

\* Seconds that may elapse between two requests.
Elapsed == {0, MaxTime}

\* ----------------------------------------------------------- static data

\* days_required of EVOLUTION_STAGES, stage indices 0..4 at positions 1..5.
EVOLUTION_STAGES == <<0, 1, 3, 5, 8>>

\* len(EVOLUTION_STAGES) - 1
LastStage == Len(EVOLUTION_STAGES) - 1

days_required(stage) == EVOLUTION_STAGES[stage + 1]

\* The "effects" of RANDOM_EVENTS, in points; a stat missing from an entry
\* is not touched by it.
RANDOM_EVENTS ==
  << [happiness |-> 15, hunger |-> -5],
     [health |-> 10, happiness |-> 10],
     [happiness |-> 20, hunger |-> -10],
     [hunger |-> 15, health |-> 5],
     [happiness |-> -10, health |-> -5],
     [happiness |-> 25, health |-> 10],
     [health |-> 15, happiness |-> 15, hunger |-> 10],
     [hunger |-> 25, happiness |-> 15],
     [health |-> 20, happiness |-> 10] >>

\* The action names perform_action recognises.
ActionKinds ==
  {"feed", "play", "rest", "train", "explore", "meditate", "groom", "evolve"}

\* Action names sent by a client that perform_action does not recognise.
UnknownKinds == {"dance"}

\* random.randint(a, b): the draws the model takes are the two ends.
randint(a, b) == {a, b}

\* -------------------------------------------------------------- helpers

max(a, b) == IF a >= b THEN a ELSE b

min(a, b) == IF a <= b THEN a ELSE b

clamp(value, min_val, max_val) == max(min_val, min(max_val, value))

\* ------------------------------------------------------------------ state

VARIABLES
  program,      \* the program that runs: "main.py" or "spirit_hatch.py"
  now,          \* the clock at the latest request or command, in seconds
  game_state,   \* main.py: the module-level dict game_state (stats in units)
  response,     \* main.py: what the latest request returned to its caller
  game,         \* spirit_hatch.py: the Game object and its SpiritAnimal
  shown,        \* spirit_hatch.py: the latest command and what it printed
  server        \* main.py: the connections of the TCPServer and its handlers

vars == <<program, now, game_state, response, game, shown, server>>

\* Mutant of new_game: the event timer starts one interval in the past, so
\* that the first state read may fire an event.
new_game_stale_timer(t) ==
  [ hunger             |-> Pts(InitialStat),
    happiness          |-> Pts(InitialStat),
    health             |-> Pts(InitialStat),
    age_days           |-> 0,
    evolution_stage    |-> 0,
    interactions       |-> 0,
    events_experienced |-> 0,
    is_alive           |-> TRUE,
    start_time         |-> t,
    last_update        |-> t,
    last_day_update    |-> t,
    last_event_check   |-> t - EventSeconds ]

\* The dict literal of the module (and of POST /api/start), built at time t.
new_game(t) ==
  [ hunger             |-> Pts(InitialStat),
    happiness          |-> Pts(InitialStat),
    health             |-> Pts(InitialStat),
    age_days           |-> 0,
    evolution_stage    |-> 0,
    interactions       |-> 0,
    events_experienced |-> 0,
    is_alive           |-> TRUE,
    start_time         |-> t,
    last_update        |-> t,
    last_day_update    |-> t,
    last_event_check   |-> t ]

\* A response: the request it answers, its "success" and "error" keys
\* ("none" when the key is absent), the kind of its message, and the index
\* in RANDOM_EVENTS of the event it reports (0: no "event" key).
Reply(request, success, error, message, event) ==
  [ request |-> request, success |-> success, error |-> error,
    message |-> message, event |-> event ]

\* ------------------------------------------------------------ update_stats

\* Mutant of death_check: a stat of 5 points or less counts as exhausted.
death_check_early(hunger, happiness, health) ==
  hunger <= Pts(5) \/ happiness <= Pts(5) \/ health <= Pts(5)

\* Mutant of death_check: a stat at 0 does not count.
death_check_strict(hunger, happiness, health) ==
  hunger < 0 \/ happiness < 0 \/ health < 0

\* The death check of update_stats on the three stats it has just computed.
death_check(hunger, happiness, health) ==
  hunger <= 0 \/ happiness <= 0 \/ health <= 0

\* A health step whose thresholds take in 30 and 70 themselves.
health_step_inclusive(hunger, happiness, health, time_diff) ==
  IF hunger <= Pts(30) \/ happiness <= Pts(30)
  THEN max(0, health - HealthLoss * time_diff)
  ELSE IF hunger >= Pts(70) /\ happiness >= Pts(70)
       THEN min(Pts(100), health + HealthGain * time_diff)
       ELSE health

\* The health step of update_stats, on the decayed hunger and happiness.
health_step(hunger, happiness, health, time_diff) ==
  IF hunger < Pts(30) \/ happiness < Pts(30)
  THEN max(0, health - HealthLoss * time_diff)
  ELSE IF hunger > Pts(70) /\ happiness > Pts(70)
       THEN min(Pts(100), health + HealthGain * time_diff)
       ELSE health

\* The day step of update_stats: the new age_days.
day_step(age_days, since_day) ==
  IF since_day >= DaySeconds THEN age_days + 1 ELSE age_days

\* The body of update_stats past its first return, at time t: decay, health
\* step, death check, day step.
decay(gs, t) ==
  LET time_diff == t - gs.last_update
      hunger    == max(0, gs.hunger - DecayRate * time_diff)
      happiness == max(0, gs.happiness - DecayRate * time_diff)
      health    == health_step(hunger, happiness, gs.health, time_diff)
      ticked    == t - gs.last_day_update >= DaySeconds
  IN [ gs EXCEPT
         !.last_update     = t,
         !.hunger          = hunger,
         !.happiness       = happiness,
         !.health          = health,
         !.is_alive        = ~death_check(hunger, happiness, health),
         !.age_days        = day_step(@, t - gs.last_day_update),
         !.last_day_update = IF ticked THEN t ELSE @ ]

\* Mutant of update_stats: the return on a deceased pet is missing.
update_stats_no_return(gs, t) == decay(gs, t)

\* update_stats() called at time t on the state gs.
update_stats(gs, t) == IF ~gs.is_alive THEN gs ELSE decay(gs, t)

\* ------------------------------------------------------ check_random_event

\* The three "if ... in event['effects']" updates for the catalog entry e.
apply_effects(gs, e) ==
  [ gs EXCEPT
      !.hunger    = IF "hunger" \in DOMAIN e
                    THEN clamp(@ + Pts(e.hunger), 0, Pts(100)) ELSE @,
      !.happiness = IF "happiness" \in DOMAIN e
                    THEN clamp(@ + Pts(e.happiness), 0, Pts(100)) ELSE @,
      !.health    = IF "health" \in DOMAIN e
                    THEN clamp(@ + Pts(e.health), 0, Pts(100)) ELSE @ ]

\* Mutant of check_random_event: the timer is reset only when an event fires.
check_random_event_reset_on_fire(gs, t, roll, choice) ==
  IF ~gs.is_alive THEN [state |-> gs, event |-> 0]
  ELSE IF t - gs.last_event_check >= EventSeconds /\ roll
       THEN [ state |-> [ apply_effects(gs, RANDOM_EVENTS[choice])
                            EXCEPT !.last_event_check = t,
                                   !.events_experienced = @ + 1 ],
              event |-> choice ]
       ELSE [state |-> gs, event |-> 0]

\* check_random_event() called at time t; roll is random.random() < 0.20 and
\* choice the index random.choice draws.  Returns the state and the index of
\* the event returned (0: None).
check_random_event(gs, t, roll, choice) ==
  IF ~gs.is_alive THEN [state |-> gs, event |-> 0]
  ELSE IF t - gs.last_event_check >= EventSeconds
       THEN LET checked == [gs EXCEPT !.last_event_check = t]
            IN IF roll
               THEN [ state |-> [ apply_effects(checked, RANDOM_EVENTS[choice])
                                    EXCEPT !.events_experienced = @ + 1 ],
                      event |-> choice ]
               ELSE [state |-> checked, event |-> 0]
       ELSE [state |-> gs, event |-> 0]

\* ---------------------------------------------------------- perform_action

up(stat, points) == min(Pts(100), stat + Pts(points))

\* Mutant of down: the floor at 0 is missing.
down_no_floor(stat, points) == stat - Pts(points)

down(stat, points) == max(0, stat - Pts(points))

\* What a branch of perform_action leaves: the state and the kind of message.
Outcome(gs, message) == [state |-> gs, message |-> message]

\* Mutant of feed: the two increases are applied to the wrong stats.
feed_swapped(gs, d1, d2) ==
  IF gs.hunger >= Pts(95) THEN Outcome(gs, "already_full")
  ELSE Outcome([gs EXCEPT !.hunger = up(@, d2), !.health = up(@, d1),
                          !.interactions = @ + 1], "feed")

\* action == "feed", with the two randint draws.
feed(gs, d1, d2) ==
  IF gs.hunger >= Pts(95) THEN Outcome(gs, "already_full")
  ELSE Outcome([gs EXCEPT !.hunger = up(@, d1), !.health = up(@, d2),
                          !.interactions = @ + 1], "feed")

\* action == "play"
play(gs, d1, d2) ==
  IF gs.happiness >= Pts(95) THEN Outcome(gs, "already_happy")
  ELSE Outcome([gs EXCEPT !.happiness = up(@, d1), !.hunger = down(@, d2),
                          !.interactions = @ + 1], "play")

\* action == "rest"
rest(gs, d1, d2) ==
  IF gs.health >= Pts(95) THEN Outcome(gs, "already_rested")
  ELSE Outcome([gs EXCEPT !.health = up(@, d1), !.happiness = up(@, d2),
                          !.interactions = @ + 1], "rest")

\* Mutant of train: the interaction is not counted.
train_uncounted(gs, d1, d2, d3) ==
  Outcome([gs EXCEPT !.health = up(@, d1), !.happiness = up(@, d2),
                     !.hunger = down(@, d3)], "train")

\* action == "train"
train(gs, d1, d2, d3) ==
  Outcome([gs EXCEPT !.health = up(@, d1), !.happiness = up(@, d2),
                     !.hunger = down(@, d3), !.interactions = @ + 1], "train")

\* The randint ranges of an explore outcome, in the order of the calls.
explore_ranges(outcome) ==
  CASE outcome = "great"   -> << <<20, 30>>, <<10, 20>>, <<5, 15>> >>
    [] outcome = "good"    -> << <<15, 20>>, <<5, 10>> >>
    [] outcome = "neutral" -> << <<5, 10>>, <<5, 10>> >>
    [] OTHER               -> << <<10, 15>>, <<10, 15>>, <<5, 10>> >>

\* action == "explore", with the outcome random.choice draws and the randint
\* draws of that outcome's branch, in the order of the calls (d3 is not read
\* by the two-draw outcomes).
explore(gs, outcome, d1, d2, d3) ==
  LET moved ==
        CASE outcome = "great" ->
               [gs EXCEPT !.happiness = up(@, d1), !.hunger = up(@, d2),
                          !.health = up(@, d3)]
          [] outcome = "good" ->
               [gs EXCEPT !.happiness = up(@, d1), !.hunger = up(@, d2)]
          [] outcome = "neutral" ->
               [gs EXCEPT !.happiness = up(@, d1), !.hunger = down(@, d2)]
          [] OTHER ->
               [gs EXCEPT !.happiness = down(@, d1), !.health = down(@, d2),
                          !.hunger = down(@, d3)]
  IN Outcome([moved EXCEPT !.interactions = @ + 1], outcome)

\* action == "meditate"
meditate(gs, d1, d2, d3) ==
  Outcome([gs EXCEPT !.health = up(@, d1), !.happiness = up(@, d2),
                     !.hunger = up(@, d3), !.interactions = @ + 1], "meditate")

\* Mutant of groom: the guard holds when either stat is high.
groom_or(gs, d1, d2) ==
  IF gs.happiness >= Pts(90) \/ gs.health >= Pts(90)
  THEN Outcome(gs, "already_pristine")
  ELSE Outcome([gs EXCEPT !.happiness = up(@, d1), !.health = up(@, d2),
                          !.interactions = @ + 1], "groom")

\* action == "groom"
groom(gs, d1, d2) ==
  IF gs.happiness >= Pts(90) /\ gs.health >= Pts(90)
  THEN Outcome(gs, "already_pristine")
  ELSE Outcome([gs EXCEPT !.happiness = up(@, d1), !.health = up(@, d2),
                          !.interactions = @ + 1], "groom")

\* Mutant of stats_too_low: a stat at the threshold is too low.
stats_too_low_strict(gs) ==
  \/ gs.hunger <= Pts(EvolveMin)
  \/ gs.happiness <= Pts(EvolveMin)
  \/ gs.health <= Pts(EvolveMin)

\* The stat test of the evolve branch.
stats_too_low(gs) ==
  \/ gs.hunger < Pts(EvolveMin)
  \/ gs.happiness < Pts(EvolveMin)
  \/ gs.health < Pts(EvolveMin)

\* Mutant of evolved: the new stage starts its own count of days.
evolved_reset_age(gs) ==
  [gs EXCEPT !.evolution_stage = @ + 1,
             !.age_days = 0,
             !.hunger = up(@, EvolveBoost),
             !.happiness = up(@, EvolveBoost),
             !.health = up(@, EvolveBoost)]

\* The state a successful evolve leaves.
evolved(gs) ==
  [gs EXCEPT !.evolution_stage = @ + 1,
             !.hunger = up(@, EvolveBoost),
             !.happiness = up(@, EvolveBoost),
             !.health = up(@, EvolveBoost)]

\* Mutant of evolve: the stat test sets its message and the evolution is
\* applied all the same.
evolve_fallthrough(gs) ==
  IF gs.evolution_stage >= LastStage THEN Outcome(gs, "max_evolution")
  ELSE IF gs.age_days < days_required(gs.evolution_stage + 1)
       THEN Outcome(gs, "need_days")
       ELSE IF stats_too_low(gs) THEN Outcome(evolved(gs), "need_stats")
            ELSE Outcome(evolved(gs), "evolved")

\* action == "evolve"
evolve(gs) ==
  IF gs.evolution_stage >= LastStage THEN Outcome(gs, "max_evolution")
  ELSE IF gs.age_days < days_required(gs.evolution_stage + 1)
       THEN Outcome(gs, "need_days")
       ELSE IF stats_too_low(gs) THEN Outcome(gs, "need_stats")
            ELSE Outcome(evolved(gs), "evolved")

\* The random draws of one perform_action call: the explore outcome and the
\* randint values, in the order of the calls.
Draws(outcome, d1, d2, d3) == [outcome |-> outcome, d1 |-> d1, d2 |-> d2, d3 |-> d3]

\* The if/elif chain of perform_action on the recognised action names.
dispatch(gs, action, rnd) ==
  CASE action = "feed"     -> feed(gs, rnd.d1, rnd.d2)
    [] action = "play"     -> play(gs, rnd.d1, rnd.d2)
    [] action = "rest"     -> rest(gs, rnd.d1, rnd.d2)
    [] action = "train"    -> train(gs, rnd.d1, rnd.d2, rnd.d3)
    [] action = "explore"  -> explore(gs, rnd.outcome, rnd.d1, rnd.d2, rnd.d3)
    [] action = "meditate" -> meditate(gs, rnd.d1, rnd.d2, rnd.d3)
    [] action = "groom"    -> groom(gs, rnd.d1, rnd.d2)
    [] action = "evolve"   -> evolve(gs)

\* The deceased return of perform_action.
faded(gs, action) ==
  [state |-> gs, reply |-> Reply(action, "false", "none", "faded", 0)]

\* The return of perform_action after a branch of the if/elif chain.
succeeded(done, action) ==
  [ state |-> done.state,
    reply |-> Reply(action, "true", "none", done.message, 0) ]

\* Mutant of invalid_action: the final else is missing, and the call
\* returns as after a branch, with an empty message.
invalid_action_no_else(gs, action) == succeeded(Outcome(gs, "none"), action)

\* The final else of perform_action.
invalid_action(gs, action) ==
  [state |-> gs, reply |-> Reply(action, "none", "Invalid action", "none", 0)]

\* Mutant of perform_action: the random event check of a state read follows
\* update_stats, and its roll fires the first event.
perform_action_with_event(gs, t, action, rnd) ==
  LET updated == check_random_event(update_stats(gs, t), t, TRUE, 1).state
  IN IF ~updated.is_alive THEN faded(updated, action)
     ELSE IF action \in ActionKinds
          THEN succeeded(dispatch(updated, action, rnd), action)
          ELSE invalid_action(updated, action)

\* Mutant of perform_action: is_alive is tested before update_stats.
perform_action_test_first(gs, t, action, rnd) ==
  LET updated == update_stats(gs, t)
  IN IF ~gs.is_alive THEN faded(updated, action)
     ELSE IF action \in ActionKinds
          THEN succeeded(dispatch(updated, action, rnd), action)
          ELSE invalid_action(updated, action)

\* perform_action(action) called at time t with the random draws rnd:
\* update_stats, the deceased return, then the if/elif chain and its final
\* else.  Returns the state and the response.
perform_action(gs, t, action, rnd) ==
  LET updated == update_stats(gs, t)
  IN IF ~updated.is_alive THEN faded(updated, action)
     ELSE IF action \in ActionKinds
          THEN succeeded(dispatch(updated, action, rnd), action)
          ELSE invalid_action(updated, action)

\* ---------------------------------------------- spirit_hatch.py: the pet

\* Units per stat point in the terminal game: its smallest rate, 0.25 point
\* per minute, is 1 unit per second.
SpiritScale == 240

\* n stat points of the terminal game, in units.
SPts(n) == n * SpiritScale

\* hunger_decay = happiness_decay = 6.0 points per minute, in units per second.
SpiritDecay == 24

\* health loss 0.5 points per minute, in units per second.
SpiritHealthLoss == 2

\* health recovery 0.25 points per minute, in units per second.
SpiritHealthGain == 1

\* Value of the three stats of a new SpiritAnimal, in points.
SpiritInitialStat == 100

\* days_required of SpiritAnimal.EVOLUTION_STAGES.
SpiritAnimal_EVOLUTION_STAGES == <<0, 1, 3, 5, 8>>

\* SpiritAnimal.__init__ at time t.  The fields that only the display reads
\* (name, total_time_alive, last_hunger, last_happiness, last_health) are
\* left out.
SpiritAnimal_init(t) ==
  [ hunger          |-> SPts(SpiritInitialStat),
    happiness       |-> SPts(SpiritInitialStat),
    health          |-> SPts(SpiritInitialStat),
    age_days        |-> 0,
    evolution_stage |-> 0,
    last_update     |-> t,
    is_alive        |-> TRUE,
    interactions    |-> 0 ]

\* SpiritAnimal.update_stats() at time t.
SpiritAnimal_update_stats(self, t) ==
  IF ~self.is_alive THEN self
  ELSE LET time_diff == t - self.last_update
           hunger    == max(0, self.hunger - SpiritDecay * time_diff)
           happiness == max(0, self.happiness - SpiritDecay * time_diff)
           health    ==
             IF hunger < SPts(30) \/ happiness < SPts(30)
             THEN max(0, self.health - SpiritHealthLoss * time_diff)
             ELSE IF hunger > SPts(70) /\ happiness > SPts(70)
                  THEN min(SPts(100), self.health + SpiritHealthGain * time_diff)
                  ELSE self.health
       IN [ self EXCEPT
              !.last_update = t,
              !.hunger      = hunger,
              !.happiness   = happiness,
              !.health      = health,
              !.is_alive    = ~(hunger <= 0 \/ happiness <= 0 \/ health <= 0) ]

\* What a method of SpiritAnimal leaves: the pet and the kind of the string
\* it returns ("IndexError": it raises instead of returning).
Told(self, message) == [spirit |-> self, message |-> message]

\* SpiritAnimal.feed() at time t, with the two randint draws.
SpiritAnimal_feed(self, t, d1, d2) ==
  IF ~self.is_alive THEN Told(self, "faded")
  ELSE LET updated == SpiritAnimal_update_stats(self, t)
       IN IF updated.hunger >= SPts(95) THEN Told(updated, "already_full")
          ELSE Told([updated EXCEPT
                       !.hunger = min(SPts(100), @ + SPts(d1)),
                       !.health = min(SPts(100), @ + SPts(d2)),
                       !.interactions = @ + 1], "feed")

\* SpiritAnimal.play() at time t, with the two randint draws.
SpiritAnimal_play(self, t, d1, d2) ==
  IF ~self.is_alive THEN Told(self, "faded")
  ELSE LET updated == SpiritAnimal_update_stats(self, t)
       IN IF updated.happiness >= SPts(95) THEN Told(updated, "already_happy")
          ELSE Told([updated EXCEPT
                       !.happiness = min(SPts(100), @ + SPts(d1)),
                       !.hunger = max(0, @ - SPts(d2)),
                       !.interactions = @ + 1], "play")

\* SpiritAnimal.rest() at time t, with the two randint draws.
SpiritAnimal_rest(self, t, d1, d2) ==
  IF ~self.is_alive THEN Told(self, "faded")
  ELSE LET updated == SpiritAnimal_update_stats(self, t)
       IN IF updated.health >= SPts(95) THEN Told(updated, "already_rested")
          ELSE Told([updated EXCEPT
                       !.health = min(SPts(100), @ + SPts(d1)),
                       !.happiness = min(SPts(100), @ + SPts(d2)),
                       !.interactions = @ + 1], "rest")

\* Mutant of can_evolve: the days lived are not compared with days_required.
SpiritAnimal_can_evolve_any_day(self) ==
  self.evolution_stage < Len(SpiritAnimal_EVOLUTION_STAGES) - 1

\* SpiritAnimal.can_evolve()
SpiritAnimal_can_evolve(self) ==
  IF self.evolution_stage >= Len(SpiritAnimal_EVOLUTION_STAGES) - 1 THEN FALSE
  ELSE self.age_days >= SpiritAnimal_EVOLUTION_STAGES[self.evolution_stage + 2]

\* Mutant of evolve: the evolution does not boost the stats.
SpiritAnimal_evolve_no_boost(self) ==
  IF ~self.is_alive THEN Told(self, "faded")
  ELSE IF ~SpiritAnimal_can_evolve(self)
       THEN IF self.evolution_stage + 1 > Len(SpiritAnimal_EVOLUTION_STAGES) - 1
            THEN Told(self, "IndexError")
            ELSE Told(self, "need_days")
       ELSE IF self.evolution_stage >= Len(SpiritAnimal_EVOLUTION_STAGES) - 1
            THEN Told(self, "max_evolution")
            ELSE IF \/ self.hunger < SPts(50)
                    \/ self.happiness < SPts(50)
                    \/ self.health < SPts(50)
                 THEN Told(self, "need_stats")
                 ELSE Told([self EXCEPT !.evolution_stage = @ + 1], "evolved")

\* SpiritAnimal.evolve().  It does not call update_stats.  When can_evolve()
\* is false it reads EVOLUTION_STAGES[evolution_stage + 1], which raises
\* IndexError at the final stage.
SpiritAnimal_evolve(self) ==
  IF ~self.is_alive THEN Told(self, "faded")
  ELSE IF ~SpiritAnimal_can_evolve(self)
       THEN IF self.evolution_stage + 1 > Len(SpiritAnimal_EVOLUTION_STAGES) - 1
            THEN Told(self, "IndexError")
            ELSE Told(self, "need_days")
       ELSE IF self.evolution_stage >= Len(SpiritAnimal_EVOLUTION_STAGES) - 1
            THEN Told(self, "max_evolution")
            ELSE IF \/ self.hunger < SPts(50)
                    \/ self.happiness < SPts(50)
                    \/ self.health < SPts(50)
                 THEN Told(self, "need_stats")
                 ELSE Told([self EXCEPT
                              !.evolution_stage = @ + 1,
                              !.hunger = min(SPts(100), @ + SPts(20)),
                              !.happiness = min(SPts(100), @ + SPts(20)),
                              !.health = min(SPts(100), @ + SPts(20))],
                           "evolved")

\* SpiritAnimal.get_status() at time t.
SpiritAnimal_get_status(self, t) ==
  LET updated == SpiritAnimal_update_stats(self, t)
  IN Told(updated, IF ~updated.is_alive THEN "game_over" ELSE "status")

\* --------------------------------------------- spirit_hatch.py: the game

\* The commands of the terminal shell, after lower() and strip(): the seven
\* it knows, one it does not, and the empty line.
Commands ==
  {"feed", "play", "rest", "status", "evolve", "help", "quit", "dance", ""}

\* Game.__init__ and Game.start_game at time t (the prompts answered at
\* once).
Game_init(t) ==
  [ spirit |-> SpiritAnimal_init(t), running |-> TRUE, last_day_update |-> t ]

\* Game.update_game_days() at time t.
Game_update_game_days(self, t) ==
  LET time_diff == t - self.last_day_update
  IN IF time_diff >= DaySeconds
     THEN [ self EXCEPT !.spirit.age_days = @ + time_diff \div DaySeconds,
                        !.last_day_update = t ]
     ELSE self

\* What process_command leaves: the game and the kind of the string returned.
Shown(self, told) == [game |-> [self EXCEPT !.spirit = told.spirit],
                      message |-> told.message]

\* Game.process_command(command) at time t, with the randint draws.
Game_process_command(self, t, command, rnd) ==
  IF command = "" THEN Shown(self, Told(self.spirit, "empty"))
  ELSE LET aged == Game_update_game_days(self, t)
           pet  == aged.spirit
       IN CASE command = "feed" ->
                 Shown(aged, SpiritAnimal_feed(pet, t, rnd.d1, rnd.d2))
            [] command = "play" ->
                 Shown(aged, SpiritAnimal_play(pet, t, rnd.d1, rnd.d2))
            [] command = "rest" ->
                 Shown(aged, SpiritAnimal_rest(pet, t, rnd.d1, rnd.d2))
            [] command = "status" ->
                 Shown(aged, SpiritAnimal_get_status(pet, t))
            [] command = "evolve" ->
                 Shown(aged, SpiritAnimal_evolve(pet))
            [] command = "help" ->
                 Shown(aged, Told(pet, "help"))
            [] command = "quit" ->
                 Shown([aged EXCEPT !.running = FALSE], Told(pet, "goodbye"))
            [] OTHER ->
                 Shown(aged, Told(pet, "unknown_command"))

\* Game.check_win_condition()
Game_check_win_condition(self) ==
  /\ self.spirit.evolution_stage >= Len(SpiritAnimal_EVOLUTION_STAGES) - 1
  /\ self.spirit.hunger > SPts(50)
  /\ self.spirit.happiness > SPts(50)
  /\ self.spirit.health > SPts(50)

\* One iteration of the loop of Game.run past its input(): process_command,
\* then the win condition.  An exception leaves the loop and the program.
Game_run(self, t, command, rnd) ==
  LET printed == Game_process_command(self, t, command, rnd)
  IN IF printed.message = "IndexError"
     THEN [ game |-> [printed.game EXCEPT !.running = FALSE],
            shown |-> [command |-> command, message |-> printed.message] ]
     ELSE [ game |-> IF Game_check_win_condition(printed.game)
                     THEN [printed.game EXCEPT !.running = FALSE]
                     ELSE printed.game,
            shown |-> [command |-> command, message |-> printed.message] ]

\* ---------------------------------------------------------------- requests

\* The reply of GET /api/state.
state_reply(event) == Reply("state", "none", "none", "none", event)

\* Mutant of get_state: the read returns the state as the latest request
\* left it, without update_stats and without the event check.
get_state_no_update(gs, t, event) ==
  [state |-> gs, reply |-> state_reply(0)]

\* GET /api/state at time t: update_stats, then check_random_event, with
\* event 0 when random.random() >= 0.20 and else the index random.choice
\* draws.  Returns the state and the response.
get_state(gs, t, event) ==
  LET checked == check_random_event(update_stats(gs, t), t, event # 0, event)
  IN [state |-> checked.state, reply |-> state_reply(checked.event)]

\* No random draw.
NoDraws == Draws("none", 0, 0, 0)

\* A session as a client's routine leaves it: created at time born, then one
\* request group every DaySeconds for the given number of days.  A caring
\* client meditates once, on day 1 (top draws), and asks to evolve every
\* day; a neglecting client only reads the state, and no random event fires.
RECURSIVE Routine(_, _, _)
Routine(born, days, care) ==
  IF days = 0
  THEN [state |-> new_game(born), reply |-> Reply("none", "none", "none", "none", 0)]
  ELSE LET t    == born + days * DaySeconds
           prev == Routine(born, days - 1, care).state
           fed  == IF days = 1
                   THEN perform_action(prev, t, "meditate",
                                       Draws("none", 15, 15, 12)).state
                   ELSE prev
       IN IF care THEN perform_action(fed, t, "evolve", NoDraws)
                  ELSE get_state(prev, t, 0)

\* The ages, in days, of a cared-for session on the eve of each stage's
\* days_required: 0, 2, 4, 7.
Eves == {days_required(k) - 1 : k \in 1..LastStage}

\* The last day a neglected pet is alive: the whole days its hunger lasts.
NeglectDays == (Pts(InitialStat) - 1) \div (DecayRate * DaySeconds)

\* A session created at time t on which a client has at once requested the
\* actions of the sequence calls, each with its random draws.
RECURSIVE Script(_, _)
Script(t, calls) ==
  IF calls = <<>> THEN Routine(t, 0, TRUE)
  ELSE LET call == calls[Len(calls)]
       IN perform_action(Script(t, SubSeq(calls, 1, Len(calls) - 1)).state,
                         t, call.action, call.rnd)

\* An action of a script and its draws.
Asked(action, outcome, d1, d2, d3) ==
  [action |-> action, rnd |-> Draws(outcome, d1, d2, d3)]

\* Sessions whose stats a client has brought, at second 0, to the edges of
\* the health step of update_stats a day later: hunger and happiness above
\* 70 with health below 100, the same with health at 100, hunger at 70
\* exactly, hunger at 30 exactly, and a health that the loss of a day
\* exhausts.
Scripts ==
  { << Asked("meditate", "none", 15, 15, 12), Asked("meditate", "none", 15, 15, 12),
       Asked("meditate", "none", 15, 15, 12) >>,
    << Asked("meditate", "none", 15, 15, 12), Asked("meditate", "none", 15, 15, 12),
       Asked("meditate", "none", 15, 15, 12), Asked("meditate", "none", 15, 15, 12) >>,
    << Asked("meditate", "none", 15, 15, 12), Asked("meditate", "none", 15, 15, 9),
       Asked("meditate", "none", 15, 15, 8) >>,
    << Asked("play", "none", 15, 5, 0), Asked("play", "none", 15, 6, 0) >>,
    << Asked("explore", "bad", 10, 12, 5), Asked("explore", "bad", 10, 12, 5),
       Asked("explore", "bad", 10, 12, 5), Asked("explore", "bad", 10, 12, 5) >> }

\* The sessions the server may hold at second 0 (the origin of time.time()
\* is arbitrary: second 0 is the instant of the session's latest request):
\* the session the module creates (no request served yet), a cared-for
\* session on the eve of each evolution, a neglected session on its last
\* day and on the day after, deceased, and the scripted sessions.
Sessions ==
  {Routine(0 - days * DaySeconds, days, TRUE) : days \in Eves}
    \cup {Routine(0 - days * DaySeconds, days, FALSE) :
            days \in {NeglectDays, NeglectDays + 1}}
    \cup {Script(0, calls) : calls \in Scripts}

\* The days a session is left without any request while its pet would
\* still be alive at the next one.
IdleDays == NeglectDays - 1

\* A session created IdleDays before second 0 that no request has reached
\* since.
IdleSessions == {Routine(0 - IdleDays * DaySeconds, 0, FALSE)}

\* A terminal game as a caring player's routine leaves it: started at time
\* born, then "evolve" every DaySeconds for the given number of days (the
\* stats keep their values: evolve does not call update_stats).
RECURSIVE Game_routine(_, _)
Game_routine(born, days) ==
  IF days = 0
  THEN [game |-> Game_init(born), shown |-> [command |-> "none", message |-> "none"]]
  ELSE Game_run(Game_routine(born, days - 1).game,
                born + days * DaySeconds, "evolve", NoDraws)

\* The last day a neglected pet of the terminal game is alive.
SpiritNeglectDays == (SPts(SpiritInitialStat) - 1) \div (SpiritDecay * DaySeconds)

\* A terminal game left alone from its start at time born until its only
\* command, "status" at time t.
Game_neglected(born, t) == Game_run(Game_init(born), t, "status", NoDraws)

\* The seconds a new pet of the terminal game takes to decay to 30 points.
SpiritHungrySeconds == (SPts(SpiritInitialStat) - SPts(30)) \div SpiritDecay

\* The seconds a new pet of the terminal game takes to decay to 50 points.
SpiritHalfSeconds == (SPts(SpiritInitialStat) - SPts(50)) \div SpiritDecay

\* The games the terminal program may hold at second 0: the new game, a
\* cared-for game on the eve of each evolution, a game left alone until
\* the last day of its pet, a game started SpiritHungrySeconds ago whose
\* player has typed nothing yet, and a game whose player typed "evolve" on
\* each of the first five days and "status" at SpiritHalfSeconds.
Games ==
  {Game_routine(0 - days * DaySeconds, days) : days \in Eves}
    \cup {Game_neglected(0 - SpiritNeglectDays * DaySeconds, 0)}
    \cup {Game_routine(0 - SpiritHungrySeconds, 0)}
    \cup {Game_run(Game_routine(0 - SpiritHalfSeconds, 5).game, 0, "status", NoDraws)}

\* The TCPServer with no connection, on a session that starts as origin:
\* the requests that wait in the listen queue, the handlers that have
\* begun and not returned, the requests served so far, in order, with the
\* time and the random draws of each.
server_bind(origin) ==
  [ backlog |-> <<>>, handlers |-> {}, served |-> <<>>, sent |-> 0,
    origin |-> origin ]

\* What the variables of a program hold while the other program runs.
NoSession == Routine(0, 0, TRUE)

NoGame == Game_routine(0, 0)

Init ==
  /\ now = 0
  /\ \/ /\ program = "main.py"
        /\ \E left \in Sessions : game_state = left.state /\ response = left.reply
        /\ game = NoGame.game /\ shown = NoGame.shown
     \/ /\ program = "spirit_hatch.py"
        /\ \E left \in Games : game = left.game /\ shown = left.shown
        /\ game_state = NoSession.state /\ response = NoSession.reply
  /\ server = server_bind(NoSession.state)

\* A step of the HTTP server: a request served from its arrival to its
\* response.
Served == program = "main.py" /\ UNCHANGED <<program, game, shown, server>>

\* The clock at a request made dt seconds after the latest one.
Later(dt) == now + dt <= MaxTime /\ now' = now + dt

\* POST /api/start
StartGame ==
  \E dt \in Elapsed :
    /\ Served /\ Later(dt)
    /\ game_state' = new_game(now')
    /\ response' = Reply("start", "true", "none", "none", 0)

\* GET /api/state.  The random module is read only by a check that is due.
GetState ==
  \E dt \in Elapsed, event \in 0..Len(RANDOM_EVENTS) :
    /\ Served /\ Later(dt)
    /\ LET updated == update_stats(game_state, now')
           due     == updated.is_alive
                        /\ now' - updated.last_event_check >= EventSeconds
           result  == get_state(game_state, now', event)
       IN /\ event # 0 => due
          /\ game_state' = result.state
          /\ response' = result.reply

\* POST /api/action/<action>, with the draws of the random module.
Act(action, rnd) ==
  \E dt \in Elapsed :
    /\ Served /\ Later(dt)
    /\ LET result == perform_action(game_state, now', action, rnd)
       IN /\ result.state.interactions <= MaxInteractions
          /\ game_state' = result.state
          /\ response' = result.reply

Feed ==
  \E d1 \in randint(15, 25), d2 \in randint(5, 10) :
    Act("feed", Draws("none", d1, d2, 0))

Play ==
  \E d1 \in randint(15, 25), d2 \in randint(5, 10) :
    Act("play", Draws("none", d1, d2, 0))

Rest ==
  \E d1 \in randint(20, 30), d2 \in randint(5, 10) :
    Act("rest", Draws("none", d1, d2, 0))

Train ==
  \E d1 \in randint(12, 18), d2 \in randint(10, 15), d3 \in randint(15, 20) :
    Act("train", Draws("none", d1, d2, d3))

Explore ==
  \E outcome \in {"great", "good", "neutral", "bad"} :
    LET ranges == explore_ranges(outcome)
    IN \E d1 \in randint(ranges[1][1], ranges[1][2]),
          d2 \in randint(ranges[2][1], ranges[2][2]),
          d3 \in IF Len(ranges) = 3
                 THEN randint(ranges[3][1], ranges[3][2]) ELSE {0} :
         Act("explore", Draws(outcome, d1, d2, d3))

Meditate ==
  \E d1 \in randint(10, 15), d2 \in randint(10, 15), d3 \in randint(8, 12) :
    Act("meditate", Draws("none", d1, d2, d3))

Groom ==
  \E d1 \in randint(12, 18), d2 \in randint(8, 12) :
    Act("groom", Draws("none", d1, d2, 0))

Evolve == Act("evolve", NoDraws)

Unknown == \E action \in UnknownKinds : Act(action, NoDraws)

\* A command typed at the prompt of Game.run, dt seconds after the latest
\* one; the loop goes on while running and the pet is alive.
Command(command, rnd) ==
  \E dt \in Elapsed :
    /\ program = "spirit_hatch.py"
    /\ UNCHANGED <<program, game_state, response, server>>
    /\ game.running /\ game.spirit.is_alive
    /\ Later(dt)
    /\ LET result == Game_run(game, now', command, rnd)
       IN /\ result.game.spirit.interactions <= MaxInteractions
          /\ game' = result.game
          /\ shown' = result.shown

FeedCommand ==
  \E d1 \in randint(15, 25), d2 \in randint(5, 10) :
    Command("feed", Draws("none", d1, d2, 0))

PlayCommand ==
  \E d1 \in randint(15, 25), d2 \in randint(5, 10) :
    Command("play", Draws("none", d1, d2, 0))

RestCommand ==
  \E d1 \in randint(20, 30), d2 \in randint(5, 10) :
    Command("rest", Draws("none", d1, d2, 0))

StatusCommand == Command("status", NoDraws)

EvolveCommand == Command("evolve", NoDraws)

HelpCommand == Command("help", NoDraws)

QuitCommand == Command("quit", NoDraws)

UnknownCommand == Command("dance", NoDraws)

EmptyCommand == Command("", NoDraws)

Next ==
  \/ FeedCommand
  \/ PlayCommand
  \/ RestCommand
  \/ StatusCommand
  \/ EvolveCommand
  \/ HelpCommand
  \/ QuitCommand
  \/ UnknownCommand
  \/ EmptyCommand
  \/ StartGame
  \/ GetState
  \/ Feed
  \/ Play
  \/ Rest
  \/ Train
  \/ Explore
  \/ Meditate
  \/ Groom
  \/ Evolve
  \/ Unknown

Spec == Init /\ [][Next]_vars

\* The server alone, on a session that was left idle.
IdleInit ==
  /\ now = 0
  /\ program = "main.py"
  /\ \E left \in IdleSessions : game_state = left.state /\ response = left.reply
  /\ game = NoGame.game /\ shown = NoGame.shown
  /\ server = server_bind(NoSession.state)

\* The requests of the HTTP server.
ServerNext ==
  \/ StartGame
  \/ GetState
  \/ Feed
  \/ Play
  \/ Rest
  \/ Train
  \/ Explore
  \/ Meditate
  \/ Groom
  \/ Evolve
  \/ Unknown

IdleSpec == IdleInit /\ [][ServerNext]_vars

\* ------------------------------------ spirit_hatch.py: uneven typing

\* The last second of a game whose player types at uneven intervals.
MaxPause == 90

\* The seconds between two commands of that player: at once, half a day, a
\* day and a half.
Pauses == {0, DaySeconds \div 2, DaySeconds + DaySeconds \div 2}

\* The randint draws of a command.
CommandDraws(command) ==
  IF command \in {"feed", "play"}
  THEN {Draws("none", d1, d2, 0) : d1 \in randint(15, 25), d2 \in randint(5, 10)}
  ELSE IF command = "rest"
       THEN {Draws("none", d1, d2, 0) : d1 \in randint(20, 30), d2 \in randint(5, 10)}
       ELSE {NoDraws}

\* The game as Game.__init__ and start_game leave it at second 0.
PromptInit ==
  /\ now = 0
  /\ program = "spirit_hatch.py"
  /\ game = NoGame.game /\ shown = NoGame.shown
  /\ game_state = NoSession.state /\ response = NoSession.reply
  /\ server = server_bind(NoSession.state)

\* A command typed at the prompt of Game.run, dt seconds after the latest
\* one.
Typed ==
  \E dt \in Pauses, command \in Commands :
    \E rnd \in CommandDraws(command) :
      /\ program = "spirit_hatch.py"
      /\ UNCHANGED <<program, game_state, response, server>>
      /\ game.running /\ game.spirit.is_alive
      /\ now + dt <= MaxPause /\ now' = now + dt
      /\ LET result == Game_run(game, now', command, rnd)
         IN /\ result.game.spirit.interactions <= MaxInteractions
            /\ game' = result.game
            /\ shown' = result.shown

PromptSpec == PromptInit /\ [][Typed]_vars

\* ------------------------------------------- main.py: a page left open

\* The last second of a session that only a polling page reaches.
MaxPollTime == 2400

\* The seconds between two polls of the page.
PollSeconds == {EventSeconds}

\* The session POST /api/start creates at second 0.
PollInit ==
  /\ now = 0
  /\ program = "main.py"
  /\ game_state = new_game(0)
  /\ response = Reply("start", "true", "none", "none", 0)
  /\ game = NoGame.game /\ shown = NoGame.shown
  /\ server = server_bind(NoSession.state)

\* GET /api/state, dt seconds after the latest one, with the event the
\* random module draws when the check is due.
Poll ==
  \E dt \in PollSeconds, event \in 0..Len(RANDOM_EVENTS) :
    /\ Served
    /\ now + dt <= MaxPollTime /\ now' = now + dt
    /\ LET updated == update_stats(game_state, now')
           due     == updated.is_alive
                        /\ now' - updated.last_event_check >= EventSeconds
           result  == get_state(game_state, now', event)
       IN /\ event # 0 => due
          /\ game_state' = result.state
          /\ response' = result.reply

\* The page polls as long as its clock allows.
PollSpec == PollInit /\ [][Poll]_vars /\ WF_vars(Poll)

\* ------------------------------- spirit_hatch.py: the SpiritAnimal class

\* The pet of a terminal game in the hands of any caller of its methods
\* (the loop of Game.run is one such caller, and stops calling when the pet
\* is deceased or the game is won).
ClassInit ==
  /\ now = 0
  /\ program = "SpiritAnimal"
  /\ \E left \in Games : game = left.game /\ shown = left.shown
  /\ game_state = NoSession.state /\ response = NoSession.reply
  /\ server = server_bind(NoSession.state)

\* A method of the pet is called dt seconds after the latest call and
\* leaves told.
Call(method, told) ==
  /\ program = "SpiritAnimal"
  /\ told.spirit.interactions <= MaxInteractions
  /\ game' = [game EXCEPT !.spirit = told.spirit]
  /\ shown' = [command |-> method, message |-> told.message]
  /\ UNCHANGED <<program, game_state, response, server>>

CallFeed ==
  \E dt \in Elapsed, d1 \in randint(15, 25), d2 \in randint(5, 10) :
    Later(dt) /\ Call("feed", SpiritAnimal_feed(game.spirit, now', d1, d2))

CallPlay ==
  \E dt \in Elapsed, d1 \in randint(15, 25), d2 \in randint(5, 10) :
    Later(dt) /\ Call("play", SpiritAnimal_play(game.spirit, now', d1, d2))

CallRest ==
  \E dt \in Elapsed, d1 \in randint(20, 30), d2 \in randint(5, 10) :
    Later(dt) /\ Call("rest", SpiritAnimal_rest(game.spirit, now', d1, d2))

CallGetStatus ==
  \E dt \in Elapsed :
    Later(dt) /\ Call("status", SpiritAnimal_get_status(game.spirit, now'))

CallEvolve ==
  \E dt \in Elapsed :
    Later(dt) /\ Call("evolve", SpiritAnimal_evolve(game.spirit))

\* Game.update_game_days, the one writer of age_days.
CallUpdateGameDays ==
  \E dt \in Elapsed :
    /\ Later(dt)
    /\ program = "SpiritAnimal"
    /\ game' = Game_update_game_days(game, now')
    /\ shown' = [command |-> "days", message |-> "none"]
    /\ UNCHANGED <<program, game_state, response, server>>

ClassNext ==
  \/ CallFeed
  \/ CallPlay
  \/ CallRest
  \/ CallGetStatus
  \/ CallEvolve
  \/ CallUpdateGameDays

ClassSpec == ClassInit /\ [][ClassNext]_vars

\* ------------------------------------------- main.py: the TCPServer loop

\* Requests that clients send while the server is busy or idle.
MaxRequests == 2

\* The requests of the clients of this part: a state read, a session start,
\* an action with a saturation guard and one that can floor a stat.
ServerKinds == {"state", "start", "feed", "train"}

\* The randint draws of a perform_action call, by action.
ActionDraws(action) ==
  CASE action = "feed" ->
         {Draws("none", d1, d2, 0) : d1 \in randint(15, 25), d2 \in randint(5, 10)}
    [] action = "train" ->
         {Draws("none", d1, d2, d3) :
            d1 \in randint(12, 18), d2 \in randint(10, 15), d3 \in randint(15, 20)}
    [] OTHER -> {NoDraws}

\* perform_action past its update_stats call, on the state gs.
after_update(gs, action, rnd) ==
  IF ~gs.is_alive THEN faded(gs, action)
  ELSE IF action \in ActionKinds
       THEN succeeded(dispatch(gs, action, rnd), action)
       ELSE invalid_action(gs, action)

\* Mutant of may_accept: socketserver.ThreadingTCPServer, a thread for each
\* request.
may_accept_threading(handlers) == TRUE

\* socketserver.TCPServer: serve_forever takes the next connection when the
\* handler of the previous one has returned (process_request calls
\* finish_request in the loop's own thread).
may_accept(handlers) == handlers = {}

\* The sessions the server of this part may hold at second 0: the one the
\* module creates and a neglected one on its last day.
ServerSessions ==
  {Routine(0, 0, TRUE), Routine(0 - NeglectDays * DaySeconds, NeglectDays, FALSE)}

ServerInit ==
  /\ now = 0
  /\ program = "main.py"
  /\ \E left \in ServerSessions :
       /\ game_state = left.state /\ response = left.reply
       /\ server = server_bind(left.state)
  /\ game = NoGame.game /\ shown = NoGame.shown

\* A client connects and sends a request; the connection waits in the
\* listen queue.
Connect ==
  \E kind \in ServerKinds :
    /\ program = "main.py"
    /\ server.sent < MaxRequests
    /\ server' = [server EXCEPT !.backlog = Append(@, kind), !.sent = @ + 1]
    /\ UNCHANGED <<program, now, game_state, response, game, shown>>

\* serve_forever accepts the first waiting connection and a GameHandler
\* begins on it, dt seconds after the latest accept; the handler reads
\* time.time() as t.
Accept ==
  \E dt \in Elapsed :
    /\ program = "main.py"
    /\ server.backlog # <<>>
    /\ may_accept(server.handlers)
    /\ Later(dt)
    /\ server' = [server EXCEPT
                    !.backlog = Tail(@),
                    !.handlers = @ \cup {[ id      |-> server.sent - Len(server.backlog),
                                           kind    |-> Head(server.backlog),
                                           pc      |-> "update",
                                           t       |-> now',
                                           waiting |-> Len(server.backlog) - 1 ]}]
    /\ UNCHANGED <<program, game_state, response, game, shown>>

\* The handler h has returned: its request, the time it read and its random
\* draws join the requests served.
Returned(h, rnd, event) ==
  [server EXCEPT
     !.handlers = @ \ {h},
     !.served = Append(@, [kind |-> h.kind, t |-> h.t, rnd |-> rnd,
                           event |-> event, waiting |-> h.waiting])]

\* The first half of a handler: the update_stats call of do_GET /api/state
\* and of perform_action; do_POST /api/start assigns game_state and returns.
HandleUpdate ==
  \E h \in server.handlers :
    /\ program = "main.py"
    /\ h.pc = "update"
    /\ IF h.kind = "start"
       THEN /\ game_state' = new_game(h.t)
            /\ response' = Reply("start", "true", "none", "none", 0)
            /\ server' = Returned(h, NoDraws, 0)
       ELSE /\ game_state' = update_stats(game_state, h.t)
            /\ server' = [server EXCEPT
                            !.handlers = (@ \ {h}) \cup {[h EXCEPT !.pc = "mutate"]}]
            /\ UNCHANGED response
    /\ UNCHANGED <<program, now, game, shown>>

\* The second half of a handler: check_random_event for a state read, the
\* rest of perform_action for an action, and the response.
HandleMutate ==
  \E h \in server.handlers :
    /\ program = "main.py"
    /\ h.pc = "mutate"
    /\ IF h.kind = "state"
       THEN \E event \in 0..Len(RANDOM_EVENTS) :
              LET due     == game_state.is_alive
                               /\ h.t - game_state.last_event_check >= EventSeconds
                  checked == check_random_event(game_state, h.t, event # 0, event)
              IN /\ event # 0 => due
                 /\ game_state' = checked.state
                 /\ response' = state_reply(checked.event)
                 /\ server' = Returned(h, NoDraws, event)
       ELSE \E rnd \in ActionDraws(h.kind) :
              LET result == after_update(game_state, h.kind, rnd)
              IN /\ result.state.interactions <= MaxInteractions
                 /\ game_state' = result.state
                 /\ response' = result.reply
                 /\ server' = Returned(h, rnd, 0)
    /\ UNCHANGED <<program, now, game, shown>>

ServerLoop ==
  \/ Connect
  \/ Accept
  \/ HandleUpdate
  \/ HandleMutate

ServerSpec == ServerInit /\ [][ServerLoop]_vars

\* The state the requests of the sequence served leave when each is served
\* alone, from its arrival to its response, in the order of the sequence.
RECURSIVE Replay(_, _)
Replay(gs, served) ==
  IF served = <<>> THEN gs
  ELSE LET r == Head(served)
           next == CASE r.kind = "start" -> new_game(r.t)
                     [] r.kind = "state" -> get_state(gs, r.t, r.event).state
                     [] OTHER -> perform_action(gs, r.t, r.kind, r.rnd).state
       IN Replay(next, Tail(served))

\* ------------------------------------------------------------------ claims

\* The three stats of a state, in units.
Stats(gs) == <<gs.hunger, gs.happiness, gs.health>>

\* In a step: the state as the update_stats call of the request leaves it.
Updated == update_stats(game_state, now')

\* The three stats of a terminal pet, in units.
SpiritStats(self) == <<self.hunger, self.happiness, self.health>>

\* In a step of the terminal game: the pet as the update_stats call of
\* feed, play, rest or status leaves its stats and is_alive.
Refreshed == SpiritAnimal_update_stats(game.spirit, now')

\* In a step of the HTTP server: the request is not POST /api/start (the
\* session goes on).
SameSession == program = "main.py" /\ response'.request # "start"

\* C1: hunger, happiness and health each lie in [0,100] in every state the
\* server reaches by session starts, state reads and actions, whatever time
\* elapses between them.
C1_StatsInRange ==
  \A i \in 1..3 : 0 <= Stats(game_state)[i] /\ Stats(game_state)[i] <= 100 * 20

\* C1 witness: an action has floored a stat at 0 (train on a starving pet).
C1_Witness ==
  /\ response.request = "train" /\ response.success = "true"
  /\ game_state.hunger = 0

\* C2: once is_alive is false, no state read and no action changes is_alive,
\* hunger, happiness, health or evolution_stage.
C2_DeadIsFinal ==
  [][ (~game_state.is_alive /\ SameSession) =>
        /\ ~game_state'.is_alive
        /\ Stats(game_state') = Stats(game_state)
        /\ game_state'.evolution_stage = game_state.evolution_stage ]_vars

\* C2 witness: an action was requested of a pet deceased before the request
\* (update_stats no longer moves last_update), a day later.
C2_Witness ==
  /\ ~game_state.is_alive
  /\ response.request = "feed"
  /\ game_state.last_update < now

\* C3: after every update_stats call on a pet that was alive, is_alive is
\* false exactly when hunger, happiness or health is <= 0 after the decay
\* and health steps of that call; what the request does after update_stats
\* never sets is_alive to false.  In the terminal game likewise for the
\* commands that call update_stats (feed, play, rest, status), and no other
\* command changes is_alive.
C3_DeathCheck ==
  [][ /\ (game_state.is_alive /\ SameSession) =>
           (game_state'.is_alive <=> \A i \in 1..3 : Stats(Updated)[i] > 0)
      /\ (program = "spirit_hatch.py" /\ game.spirit.is_alive) =>
           IF shown'.command \in {"feed", "play", "rest", "status"}
           THEN game'.spirit.is_alive
                  <=> \A i \in 1..3 : SpiritStats(Refreshed)[i] > 0
           ELSE game'.spirit.is_alive ]_vars

\* C3 witness: the pet died in the update_stats call of a request of the run
\* (last_update is the instant of that request), its hunger at 0.
C3_Witness ==
  /\ ~game_state.is_alive
  /\ game_state.hunger = 0
  /\ game_state.last_update = now /\ now > 0

\* C4: evolve succeeds exactly when, after the update_stats step, the pet is
\* alive, below stage 4, at least as old as the next stage's days_required
\* (1, 3, 5, 8) and has its three stats >= 50; the message is that of the
\* first failing test in the order final stage, age, stats; a success adds 1
\* to evolution_stage and 20 to each stat, capped at 100; a failure leaves
\* the stats and the stage as update_stats left them.
C4_Evolve ==
  [][ response'.request = "evolve" =>
        LET m     == Updated
            final == m.evolution_stage >= 4
            young == m.age_days < <<1, 3, 5, 8>>[m.evolution_stage + 1]
            weak  == \E i \in 1..3 : Stats(m)[i] < 50 * 20
            first == IF final THEN "max_evolution"
                     ELSE IF young THEN "need_days"
                     ELSE IF weak THEN "need_stats" ELSE "evolved"
        IN /\ response'.message = "evolved"
                <=> (m.is_alive /\ ~final /\ ~young /\ ~weak)
           /\ m.is_alive => response'.message = first
           /\ IF response'.message = "evolved"
              THEN /\ game_state'.evolution_stage = m.evolution_stage + 1
                   /\ \A i \in 1..3 :
                        Stats(game_state')[i] = min(100 * 20, Stats(m)[i] + 20 * 20)
              ELSE /\ game_state'.evolution_stage = m.evolution_stage
                   /\ Stats(game_state') = Stats(m) ]_vars

\* C4 witness: a successful evolve has brought the pet to the final stage.
C4_Witness ==
  /\ response.message = "evolved"
  /\ game_state.evolution_stage = 4

\* C5: evolution_stage is always in 0..4; within a session a step leaves it
\* unchanged or adds exactly 1, and adds 1 only in a successful evolve.  The
\* same of the pet of the terminal game.
C5_StageLadder ==
  /\ [](game_state.evolution_stage \in 0..4)
  /\ [](game.spirit.evolution_stage \in 0..4)
  /\ [][ /\ SameSession =>
              \/ game_state'.evolution_stage = game_state.evolution_stage
              \/ /\ game_state'.evolution_stage = game_state.evolution_stage + 1
                 /\ response'.message = "evolved"
         /\ program = "spirit_hatch.py" =>
              \/ game'.spirit.evolution_stage = game.spirit.evolution_stage
              \/ /\ game'.spirit.evolution_stage = game.spirit.evolution_stage + 1
                 /\ shown'.command = "evolve" /\ shown'.message = "evolved" ]_vars

\* C5 witness: evolve was requested at the final stage, which stays 4.
C5_Witness ==
  /\ response.message = "max_evolution"
  /\ game_state.evolution_stage = 4

\* C6: within a session age_days and interactions never decrease.
C6_Monotone ==
  [][ SameSession =>
        /\ game_state'.age_days >= game_state.age_days
        /\ game_state'.interactions >= game_state.interactions ]_vars

\* C6 witness: in the run a day has ticked on the new pet and an action has
\* counted an interaction.
C6_Witness ==
  /\ response.request = "play"
  /\ now > 0 /\ game_state.start_time = 0
  /\ game_state.age_days = 1
  /\ game_state.interactions = 1

\* C7 as claimed: an unknown action on a live pet returns the structured
\* error and leaves the whole state as it was before the call, whatever
\* time has elapsed.
C7_Original ==
  [][ (game_state.is_alive /\ response'.request \in UnknownKinds) =>
        /\ response'.error = "Invalid action"
        /\ game_state' = game_state ]_vars

\* C7 amended: an unknown action on a pet that is alive after the call's
\* update_stats step returns the structured error and leaves every field as
\* update_stats left it: the stage, the counters, the event timer and the
\* start time as before the call, and the whole state as before the call
\* when no time has elapsed.
C7_UnknownAction ==
  [][ (response'.request \in UnknownKinds /\ Updated.is_alive) =>
        /\ response'.error = "Invalid action" /\ response'.success = "none"
        /\ game_state' = Updated
        /\ \A f \in {"evolution_stage", "interactions", "events_experienced",
                     "last_event_check", "start_time"} :
             game_state'[f] = game_state[f]
        /\ now' = game_state.last_update => game_state' = game_state ]_vars

\* C7 witness: an unknown action was answered with the error a day after
\* the previous request, on a pet that update_stats has decayed.
C7_Witness ==
  /\ response.error = "Invalid action"
  /\ game_state.is_alive
  /\ game_state.last_update = now /\ now > 0

\* C8: perform_action returns the deceased failure exactly when the pet is
\* not alive after the call's update_stats step; then nothing of the action
\* is applied: the stats are as update_stats left them, interactions and
\* evolution_stage as before the call.
C8_Deceased ==
  [][ response'.request \in ActionKinds \cup UnknownKinds =>
        /\ response'.success = "false" <=> ~Updated.is_alive
        /\ ~Updated.is_alive =>
             /\ response'.message = "faded"
             /\ ~game_state'.is_alive
             /\ Stats(game_state') = Stats(Updated)
             /\ game_state'.interactions = game_state.interactions
             /\ game_state'.evolution_stage = game_state.evolution_stage ]_vars

\* C8 witness: an action of the run met a pet that died from the decay of
\* that very call.
C8_Witness ==
  /\ response.success = "false"
  /\ response.request \in ActionKinds
  /\ game_state.last_update = now /\ now > 0

\* The saturation guard of an action on the state m.
Saturated(m, action) ==
  CASE action = "feed"  -> m.hunger >= 95 * 20
    [] action = "play"  -> m.happiness >= 95 * 20
    [] action = "rest"  -> m.health >= 95 * 20
    [] action = "groom" -> m.happiness >= 90 * 20 /\ m.health >= 90 * 20

\* The saturation guard of a command of the terminal game on the pet m.
SpiritSaturated(m, command) ==
  CASE command = "feed" -> m.hunger >= 95 * 240
    [] command = "play" -> m.happiness >= 95 * 240
    [] command = "rest" -> m.health >= 95 * 240

\* C9: feed, play, rest and groom where the guard is evaluated (in main.py
\* on a pet alive after update_stats, in the terminal game on a pet alive
\* before it): when the guard holds on the updated stats, the stats,
\* interactions and evolution_stage stay as update_stats left them and the
\* message is the guard's; when it does not, the effect is applied (the
\* stats move, one interaction is counted, the message is the action's).
C9_Saturation ==
  [][ /\ (response'.request \in {"feed", "play", "rest", "groom"}
            /\ program = "main.py" /\ Updated.is_alive) =>
           IF Saturated(Updated, response'.request)
           THEN /\ Stats(game_state') = Stats(Updated)
                /\ game_state'.interactions = game_state.interactions
                /\ game_state'.evolution_stage = game_state.evolution_stage
                /\ response'.message \in {"already_full", "already_happy",
                                          "already_rested", "already_pristine"}
           ELSE /\ Stats(game_state') # Stats(Updated)
                /\ game_state'.interactions = game_state.interactions + 1
                /\ response'.message = response'.request
      /\ (shown'.command \in {"feed", "play", "rest"}
            /\ program = "spirit_hatch.py" /\ game.spirit.is_alive) =>
           IF SpiritSaturated(Refreshed, shown'.command)
           THEN /\ SpiritStats(game'.spirit) = SpiritStats(Refreshed)
                /\ game'.spirit.interactions = game.spirit.interactions
                /\ game'.spirit.evolution_stage = game.spirit.evolution_stage
                /\ shown'.message \in {"already_full", "already_happy",
                                       "already_rested"}
           ELSE /\ SpiritStats(game'.spirit) # SpiritStats(Refreshed)
                /\ game'.spirit.interactions = game.spirit.interactions + 1
                /\ shown'.message = shown'.command ]_vars

\* C9 witness: groom met a pet with happiness and health at 90 or more.
C9_Witness ==
  /\ response.message = "already_pristine"
  /\ game_state.happiness >= 90 * 20 /\ game_state.health >= 90 * 20

\* C10: feed on a pet alive with hunger below 95 after update_stats adds
\* 15..25 to hunger and 5..10 to health, each capped at 100, leaves
\* happiness, counts one interaction and leaves the pet alive; from
\* 50/50/50 with no elapsed time hunger ends in [65,75], health in [55,60],
\* and interactions goes from 0 to 1.
C10_Feed ==
  [][ (response'.request = "feed" /\ Updated.is_alive
         /\ Updated.hunger < 95 * 20) =>
        /\ \E d1 \in 15..25 :
             game_state'.hunger = min(100 * 20, Updated.hunger + d1 * 20)
        /\ \E d2 \in 5..10 :
             game_state'.health = min(100 * 20, Updated.health + d2 * 20)
        /\ game_state'.happiness = Updated.happiness
        /\ game_state'.interactions = game_state.interactions + 1
        /\ game_state'.is_alive
        /\ (Stats(game_state) = <<50 * 20, 50 * 20, 50 * 20>>
              /\ game_state.interactions = 0
              /\ now' = game_state.last_update) =>
             /\ game_state'.hunger \in (65 * 20)..(75 * 20)
             /\ game_state'.health \in (55 * 20)..(60 * 20)
             /\ game_state'.interactions = 1 ]_vars

\* C10 witness: the new pet was fed at once.
C10_Witness ==
  /\ response.message = "feed"
  /\ now = 0 /\ game_state.age_days = 0
  /\ game_state.hunger \in (65 * 20)..(75 * 20)
  /\ game_state.health \in (55 * 20)..(60 * 20)
  /\ game_state.happiness = 50 * 20
  /\ game_state.interactions = 1

\* C11: within a session of the HTTP server, interactions grows by exactly 1
\* in a feed, play, rest, train, explore, meditate or groom call on a pet
\* alive after update_stats whose saturation guard does not hold, and by 0
\* in every other request: guarded no-op, evolve (successful or not),
\* unknown action, action on a deceased pet, state read.
C11_Interactions ==
  [][ SameSession =>
        LET request == response'.request
            guarded == request \in {"feed", "play", "rest", "groom"}
                         /\ Saturated(Updated, request)
            applied == /\ request \in ActionKinds \ {"evolve"}
                       /\ Updated.is_alive
                       /\ ~guarded
        IN game_state'.interactions
             = game_state.interactions + (IF applied THEN 1 ELSE 0) ]_vars

\* C11 witness: an explore was counted as the first interaction of a pet.
C11_Witness ==
  /\ response.request = "explore" /\ response.success = "true"
  /\ game_state.interactions = 1

\* C12: an update_stats call on a live pet made d seconds after
\* last_day_update adds floor(d / 30) to age_days when d >= 30 and nothing
\* when d < 30.
C12_DayTick ==
  [][ (SameSession /\ game_state.is_alive) =>
        LET d == now' - game_state.last_day_update
        IN game_state'.age_days
             = game_state.age_days + (IF d >= 30 THEN d \div 30 ELSE 0) ]_vars

\* C13: a state read that follows a state read with no time elapsed between
\* the two returns the pet state the first one returned, is_alive included,
\* and fires no random event.
C13_ReadTwice ==
  [][ (/\ program = "main.py"
       /\ response.request = "state" /\ response'.request = "state"
       /\ now' = now) =>
        /\ game_state' = game_state
        /\ response'.event = 0 ]_vars

\* The delta of the catalog entry e on a stat, in points (0: not in its
\* effects).
Delta(e, stat) == IF stat \in DOMAIN e THEN e[stat] ELSE 0

\* C14: an event fires only in a check made at least 60 seconds after
\* last_event_check, and every such check resets the timer, fired or not, so
\* that an event never fires less than 60 seconds after a fired event; a
\* fired event adds the deltas of its one catalog entry to the stats
\* update_stats left, each clamped to [0,100], and 1 to events_experienced;
\* a check that fires nothing leaves the stats and events_experienced.
C14_EventRate ==
  [][ (program = "main.py" /\ response'.request = "state") =>
        LET m     == Updated
            since == now' - game_state.last_event_check
            fired == response'.event # 0
        IN /\ fired => (since >= 60 /\ m.is_alive)
           /\ (fired /\ response.event # 0) => now' - now >= 60
           /\ game_state'.last_event_check
                = IF since >= 60 /\ m.is_alive
                  THEN now' ELSE game_state.last_event_check
           /\ IF fired
              THEN LET e == RANDOM_EVENTS[response'.event]
                   IN /\ game_state'.hunger
                           = clamp(m.hunger + 20 * Delta(e, "hunger"), 0, 100 * 20)
                      /\ game_state'.happiness
                           = clamp(m.happiness + 20 * Delta(e, "happiness"), 0, 100 * 20)
                      /\ game_state'.health
                           = clamp(m.health + 20 * Delta(e, "health"), 0, 100 * 20)
                      /\ game_state'.events_experienced
                           = game_state.events_experienced + 1
              ELSE /\ Stats(game_state') = Stats(m)
                   /\ game_state'.events_experienced
                        = game_state.events_experienced ]_vars

\* C14 witness: a state read fired the event that lowers two stats, on a
\* pet that no event had reached before.
C14_Witness ==
  /\ response.request = "state" /\ response.event = 5
  /\ game_state.events_experienced = 1
  /\ game_state.last_event_check = now

\* C15: POST /api/start, from any state, a deceased pet included, leaves
\* hunger = happiness = health = 50, evolution_stage, age_days, interactions
\* and events_experienced 0, is_alive true and the four timers at the time
\* of the request; no other request makes a deceased pet alive.
C15_Start ==
  [][ program = "main.py" =>
        /\ response'.request = "start" =>
             /\ Stats(game_state') = <<50 * 20, 50 * 20, 50 * 20>>
             /\ game_state'.evolution_stage = 0
             /\ game_state'.age_days = 0
             /\ game_state'.interactions = 0
             /\ game_state'.events_experienced = 0
             /\ game_state'.is_alive
             /\ \A timer \in {"start_time", "last_update", "last_day_update",
                              "last_event_check"} :
                  game_state'[timer] = now'
             /\ response'.success = "true"
        /\ (~game_state.is_alive /\ game_state'.is_alive) =>
             response'.request = "start" ]_vars

\* C15 witness: a session was started in the run, a day after the latest
\* request of the session it replaces.
C15_Witness ==
  /\ response.request = "start"
  /\ game_state.start_time = now /\ now > 0
  /\ game_state.is_alive

\* C16: the server runs one handler at a time, so that the update_stats and
\* the mutation of a request are never separated by a step of another, and
\* whenever no handler is running the state is the one that the requests
\* served so far leave when served one after the other, each alone.
C16_OneAtATime ==
  /\ Cardinality(server.handlers) <= 1
  /\ server.handlers = {} => game_state = Replay(server.origin, server.served)

\* C16 witness: two requests were served of which the first was accepted
\* while the second was waiting, and the first was an action.
C16_Witness ==
  /\ Len(server.served) = 2
  /\ server.served[1].waiting = 1
  /\ server.served[1].kind = "train"
  /\ server.served[2].kind = "feed"

\* C17: SpiritAnimal.evolve called on a live pet at the final stage returns
\* the maximum-evolution message, raises nothing and leaves the stats and
\* the stage.
C17_EvolveAtFinalStage ==
  [][ (/\ program = "SpiritAnimal"
       /\ shown'.command = "evolve"
       /\ game.spirit.is_alive
       /\ game.spirit.evolution_stage = 4) =>
        /\ shown'.message = "max_evolution"
        /\ game'.spirit = game.spirit ]_vars

\* C18: the health step of update_stats, on hunger and happiness as this
\* call's decay leaves them: below 30 for either, health loses the loss
\* rate times the elapsed seconds, floored at 0; above 70 for both, health
\* gains the smaller recovery rate times the elapsed seconds, capped at
\* 100; else (a stat at 30 or at 70 included) health is unchanged.  Read on
\* the requests that leave the stats to update_stats: a state read without
\* event and an unknown action in main.py (0.1 and 0.05 point per second:
\* 2 and 1 units), the status command in the terminal game (0.5 and 0.25
\* point per minute: 2 and 1 units of 1/240 point per second).
C18_HealthStep ==
  [][ /\ (/\ program = "main.py" /\ game_state.is_alive
          /\ \/ response'.request = "state" /\ response'.event = 0
             \/ response'.request \in UnknownKinds) =>
           LET dt == now' - game_state.last_update
               h  == game_state'.hunger
               p  == game_state'.happiness
           IN /\ h = max(0, game_state.hunger - 6 * dt)
              /\ p = max(0, game_state.happiness - 6 * dt)
              /\ game_state'.health
                   = IF h < 30 * 20 \/ p < 30 * 20
                     THEN max(0, game_state.health - 2 * dt)
                     ELSE IF h > 70 * 20 /\ p > 70 * 20
                          THEN min(100 * 20, game_state.health + 1 * dt)
                          ELSE game_state.health
      /\ (/\ program = "spirit_hatch.py" /\ game.spirit.is_alive
          /\ shown'.command = "status") =>
           LET dt == now' - game.spirit.last_update
               h  == game'.spirit.hunger
               p  == game'.spirit.happiness
           IN /\ h = max(0, game.spirit.hunger - 24 * dt)
              /\ p = max(0, game.spirit.happiness - 24 * dt)
              /\ game'.spirit.health
                   = IF h < 30 * 240 \/ p < 30 * 240
                     THEN max(0, game.spirit.health - 2 * dt)
                     ELSE IF h > 70 * 240 /\ p > 70 * 240
                          THEN min(100 * 240, game.spirit.health + 1 * dt)
                          ELSE game.spirit.health ]_vars

\* C18 witness: a state read a day after the latest request found hunger
\* and happiness above 70 and let health recover, short of 100.
C18_Witness ==
  /\ response.request = "state"
  /\ game_state.last_update = now /\ now > 0
  /\ game_state.hunger > 70 * 20 /\ game_state.happiness > 70 * 20
  /\ game_state.health > 95 * 20 /\ game_state.health < 100 * 20

\* C19: in the terminal game the evolve command decides on the stats decayed
\* up to the time of the command: a pet whose stats, decayed to that time,
\* are below 50 for one of them, or that this decay lets fade, does not
\* change its stage.
C19_EvolveOnFreshStats ==
  [][ (/\ program = "spirit_hatch.py"
       /\ shown'.command = "evolve"
       /\ \/ ~Refreshed.is_alive
          \/ Refreshed.hunger < 50 * 240
          \/ Refreshed.happiness < 50 * 240
          \/ Refreshed.health < 50 * 240) =>
        game'.spirit.evolution_stage = game.spirit.evolution_stage ]_vars

\* C20: in the terminal game a feed, play or rest command that ends with
\* is_alive false has applied no effect: the stats are those update_stats
\* left and interactions is not incremented.
C20_NoEffectOnFaded ==
  [][ (/\ program = "spirit_hatch.py"
       /\ shown'.command \in {"feed", "play", "rest"}
       /\ ~game'.spirit.is_alive) =>
        /\ SpiritStats(game'.spirit) = SpiritStats(Refreshed)
        /\ game'.spirit.interactions = game.spirit.interactions ]_vars

\* C21: in the terminal game started at second 0, after any sequence of
\* commands age_days is the number of full days (30 seconds each) between
\* the start and the latest command that process_command took past its
\* empty-input return, whatever the seconds between the commands.
C21_DaysElapsed ==
  (/\ program = "spirit_hatch.py"
   /\ shown.command \notin {"none", ""}) =>
     game.spirit.age_days = now \div 30

\* C22: perform_action, for every action kind and whatever the seconds
\* since the latest event check, fires no random event: its response names
\* none, and events_experienced and last_event_check keep their values.
C22_NoEventOnAction ==
  [][ (/\ program = "main.py"
       /\ response'.request \notin {"state", "start"}) =>
        /\ response'.event = 0
        /\ game_state'.events_experienced = game_state.events_experienced
        /\ game_state'.last_event_check = game_state.last_event_check ]_vars

\* C22 witness: an action was applied to a live pet while an event check
\* was due.
C22_Witness ==
  /\ program = "main.py"
  /\ response.request \in ActionKinds
  /\ response.success = "true"
  /\ game_state.is_alive
  /\ game_state.last_update = now /\ now > 0
  /\ now - game_state.last_event_check >= 60

\* C23: every state main.py returns to a caller (GET /api/state, the result
\* of perform_action) with is_alive true has hunger, happiness and health
\* above 0.
C23_AliveIsPositive ==
  (/\ program = "main.py"
   /\ response.request \in {"state"} \cup ActionKinds \cup UnknownKinds
   /\ game_state.is_alive) =>
     /\ game_state.hunger > 0
     /\ game_state.happiness > 0
     /\ game_state.health > 0

\* C24: in every state of main.py where is_alive is false, hunger,
\* happiness or health is 0.
C24_DeceasedHasZero ==
  (program = "main.py" /\ ~game_state.is_alive) =>
     \/ game_state.hunger = 0
     \/ game_state.happiness = 0
     \/ game_state.health = 0

\* C24 witness: a state read, a day after update_stats declared the pet
\* deceased, returned it deceased.
C24_Witness ==
  /\ program = "main.py"
  /\ response.request = "state"
  /\ ~game_state.is_alive
  /\ now > game_state.last_update

\* C25: in every state of either program, age_days is at least the
\* days_required of the current stage: 0, 1, 3, 5, 8 days for the stages 0
\* to 4.
C25_StageAge ==
  LET threshold == <<0, 1, 3, 5, 8>>
  IN /\ program = "main.py" =>
          game_state.age_days >= threshold[game_state.evolution_stage + 1]
     /\ program \in {"spirit_hatch.py", "SpiritAnimal"} =>
          game.spirit.age_days >= threshold[game.spirit.evolution_stage + 1]

\* C25 witness: an evolve request brought the pet of main.py to stage 2 on
\* the very day the stage requires.
C25_Witness ==
  /\ program = "main.py"
  /\ response.request = "evolve" /\ response.success = "true"
  /\ game_state.last_update = now /\ now > 0
  /\ game_state.evolution_stage = 2
  /\ game_state.age_days = 3

\* C26: in the loop of Game.run, the iteration in which evolve brings the
\* pet to the final stage sets running to false, and no command is
\* processed while evolution_stage is the final stage.
C26_WinAtFinalStage ==
  [][ program = "spirit_hatch.py" =>
        /\ game'.spirit.evolution_stage = 4 => ~game'.running
        /\ game.spirit.evolution_stage = 4 => game' = game /\ shown' = shown ]_vars

\* C26 witness: evolve brought a pet of hunger and happiness 50 to the
\* final stage, and the loop has stopped.
C26_Witness ==
  /\ program = "spirit_hatch.py"
  /\ shown.command = "evolve" /\ shown.message = "evolved"
  /\ game.spirit.evolution_stage = 4
  /\ game.spirit.hunger = 70 * 240 /\ game.spirit.happiness = 70 * 240
  /\ ~game.running

\* C27: when time keeps advancing and the state is read again and again
\* with no action in between, the pet of main.py is eventually deceased,
\* whichever random events the checks fire.
C27_DecayKills == <>(program = "main.py" /\ ~game_state.is_alive)

\* C27 witness: a pet that only state reads reached is deceased after more
\* than thirty events.
C27_Witness ==
  /\ program = "main.py"
  /\ response.request = "state"
  /\ game_state.interactions = 0
  /\ game_state.events_experienced > 30
  /\ ~game_state.is_alive

====
